---------------------------- MODULE Spec2Model ----------------------------
(***************************************************************************)
(* The per-step flocking update of rust-birdflock, in its two concurrency *)
(* strategies: the thread-pool variant (src/singlethread/src/main.rs) and *)
(* the rayon variants (src/rayon/src/main.rs and src/src/main.rs, whose   *)
(* update closures are the same code).                                    *)
(*                                                                         *)
(* Numbers.  An f32 is modelled as a fixed-point integer: the f32 value x *)
(* is the integer x * Unit.  A Vector3<f32> is a triple of such integers. *)
(* The bounded inputs are chosen on a grid where every operation of the   *)
(* update is exact (vectors along one axis, or along a 3-4-5 direction),  *)
(* so the model computes the real-number result of each f32 expression;   *)
(* f32 rounding error itself is not modelled.                             *)
(***************************************************************************)
EXTENDS Integers, Sequences, FiniteSets, TLC

----------------------------------------------------------------------------
(* Bounds of the model *)

\* number of birds in the store (NUM_BIRDS is 750 or 10000 in the source)
NUM_BIRDS == 2
\* num_cpus::get() is drawn from 1..MaxThreads
MaxThreads == 2
\* number of RedrawRequested steps a behaviour runs
MaxSteps == 2
\* number of pool jobs that stall in one behaviour
MaxStalled == 1
\* the chunking is probed for every population 1..MaxChunkBirds
MaxChunkBirds == 7
\* ... and every pool size 1..MaxChunkThreads
MaxChunkThreads == 7
\* wraparound is probed up to MaxWidths domain widths outside the domain
MaxWidths == 4
\* a population of one agent is followed for MaxSingleSteps steps
MaxSingleSteps == 3

----------------------------------------------------------------------------
(* Program constants, in fixed point *)

\* the f32 value 1.0
Unit == 4000

DIMENSIONS == 30000
SPACE_MIN == -DIMENSIONS
SPACE_MAX == DIMENSIONS

SEPARATION_WEIGHT == 6000
ALIGNMENT_WEIGHT == 8000
COHESION_WEIGHT == 6000
PERCEPTION_RADIUS == 7600
MAX_SPEED == 500
MAX_FORCE == 120

----------------------------------------------------------------------------
(* State *)

VARIABLES
    variant,          \* "pool" (src/singlethread) or "rayon" (src/rayon, src/src)
    num_threads,      \* pool variant: num_cpus::get()
    birds,            \* the live store
    step,             \* the number of steps started so far
    main_pc,          \* where the event-loop thread is in RedrawRequested
    warned,           \* the current step printed the "taking too long" warning
    birds_snapshot,   \* per step: birds.clone()
    results,          \* per step: the Arc<Mutex<Vec<(position, velocity)>>>
    completed_count,  \* per step: the Arc<Mutex<usize>>
    results_lock,     \* per step: who holds the results mutex
    count_lock,       \* per step: who holds the completed_count mutex
    task_pc,          \* per step and task: where the pool job is
    stalled,          \* the jobs that stopped making progress at some point
    par_done,         \* rayon variants: the indices whose closure has run
    probe             \* a pure function under test, its input and its output

vars == <<variant, num_threads, birds, step, main_pc, warned, birds_snapshot,
          results, completed_count, results_lock, count_lock, task_pc,
          stalled, par_done, probe>>

simVars == <<variant, num_threads, birds, step, main_pc, warned, birds_snapshot,
             results, completed_count, results_lock, count_lock, task_pc,
             stalled, par_done>>

poolVars == <<results, completed_count, results_lock, count_lock, task_pc, stalled>>

----------------------------------------------------------------------------
(* f32 and Vector3<f32> arithmetic *)

\* Rust's a / b on numbers of either sign, rounded toward zero on the grid
SDiv(a, b) == IF a >= 0 THEN a \div b ELSE -((-a) \div b)

\* Rust's a % b: the remainder has the sign of the dividend
Rem(a, b) == IF a >= 0 THEN a % b ELSE -((-a) % b)

\* a * b of two f32
FMul(a, b) == SDiv(a * b, Unit)

\* a / b of two f32
FDiv(a, b) == SDiv(a * Unit, b)

Zeros == <<0, 0, 0>>

VAdd(a, b) == <<a[1] + b[1], a[2] + b[2], a[3] + b[3]>>

VSub(a, b) == <<a[1] - b[1], a[2] - b[2], a[3] - b[3]>>

\* v * s and s * v, s an f32
VMul(v, s) == <<FMul(v[1], s), FMul(v[2], s), FMul(v[3], s)>>

\* v / s, s an f32
VDiv(v, s) == <<FDiv(v[1], s), FDiv(v[2], s), FDiv(v[3], s)>>

NormSq(v) == v[1] * v[1] + v[2] * v[2] + v[3] * v[3]

RECURSIVE SqrtSearch(_, _, _)
SqrtSearch(n, lo, hi) ==
    IF lo >= hi THEN lo
    ELSE LET mid == (lo + hi + 1) \div 2
         IN  IF mid * mid <= n THEN SqrtSearch(n, mid, hi)
             ELSE SqrtSearch(n, lo, mid - 1)

\* the square root, exact on the squares the model's inputs produce
Sqrt(n) == SqrtSearch(n, 0, 46340)

Abs(x) == IF x >= 0 THEN x ELSE -x

\* v.norm(); the norm of a vector along one axis is taken without squaring
Norm(v) ==
    IF v[2] = 0 /\ v[3] = 0 THEN Abs(v[1])
    ELSE IF v[1] = 0 /\ v[3] = 0 THEN Abs(v[2])
    ELSE IF v[1] = 0 /\ v[2] = 0 THEN Abs(v[3])
    ELSE Sqrt(NormSq(v))

\* v.normalize()
Normalize(v) == VDiv(v, Norm(v))


----------------------------------------------------------------------------
(* The pure functions of the update *)

\* a wraparound that shifts by one domain width instead of taking the remainder
WrapAxis_single_shift(x) ==
    IF x < SPACE_MIN THEN x + (SPACE_MAX - SPACE_MIN)
    ELSE IF x > SPACE_MAX THEN x - (SPACE_MAX - SPACE_MIN)
         ELSE x

\* a wraparound whose tests include the faces of the domain
WrapAxis_inclusive(x) ==
    IF x <= SPACE_MIN
    THEN SPACE_MAX - Rem(SPACE_MIN - x, SPACE_MAX - SPACE_MIN)
    ELSE IF x >= SPACE_MAX
         THEN SPACE_MIN + Rem(x - SPACE_MAX, SPACE_MAX - SPACE_MIN)
         ELSE x

\* one coordinate of wraparound: the body of `for i in 0..3`
WrapAxis(x) ==
    IF x < SPACE_MIN
    THEN SPACE_MAX - Rem(SPACE_MIN - x, SPACE_MAX - SPACE_MIN)
    ELSE IF x > SPACE_MAX
         THEN SPACE_MIN + Rem(x - SPACE_MAX, SPACE_MAX - SPACE_MIN)
         ELSE x

wraparound(v) == <<WrapAxis(v[1]), WrapAxis(v[2]), WrapAxis(v[3])>>

\* a limit_vec that rescales every non-zero vector to length max
limit_vec_rescale(v, max) ==
    IF Norm(v) > 0 THEN VMul(Normalize(v), max) ELSE v

limit_vec(v, max) ==
    IF Norm(v) > max THEN VMul(Normalize(v), max) ELSE v

Bird(p, v, a) == [position |-> p, velocity |-> v, acceleration |-> a]

\* the accumulators before the neighbour scan
NoNeighbours ==
    [separation |-> Zeros, alignment |-> Zeros, cohesion |-> Zeros, total |-> 0]

\* a neighbour test without the perception radius
Accumulate_no_radius(bird, other, acc) ==
    LET distance == Norm(VSub(bird.position, other.position))
    IN  IF distance > 0
        THEN [separation |-> VAdd(acc.separation,
                                  VDiv(VSub(bird.position, other.position), distance)),
              alignment  |-> VAdd(acc.alignment, other.velocity),
              cohesion   |-> VAdd(acc.cohesion, other.position),
              total      |-> acc.total + 1]
        ELSE acc

\* a neighbour test that includes the distance PERCEPTION_RADIUS itself
Accumulate_inclusive(bird, other, acc) ==
    LET distance == Norm(VSub(bird.position, other.position))
    IN  IF distance > 0 /\ distance <= PERCEPTION_RADIUS
        THEN [separation |-> VAdd(acc.separation,
                                  VDiv(VSub(bird.position, other.position), distance)),
              alignment  |-> VAdd(acc.alignment, other.velocity),
              cohesion   |-> VAdd(acc.cohesion, other.position),
              total      |-> acc.total + 1]
        ELSE acc

\* the body of `for other in birds_snapshot`
Accumulate(bird, other, acc) ==
    LET distance == Norm(VSub(bird.position, other.position))
    IN  IF distance > 0 /\ distance < PERCEPTION_RADIUS
        THEN [separation |-> VAdd(acc.separation,
                                  VDiv(VSub(bird.position, other.position), distance)),
              alignment  |-> VAdd(acc.alignment, other.velocity),
              cohesion   |-> VAdd(acc.cohesion, other.position),
              total      |-> acc.total + 1]
        ELSE acc

\* the neighbour scan over birds_snapshot[j..], in the order of the slice
RECURSIVE Scan(_, _, _, _)
Scan(bird, snapshot, j, acc) ==
    IF j \notin DOMAIN snapshot THEN acc
    ELSE Scan(bird, snapshot, j + 1,
              Accumulate(bird, snapshot[j], acc))

\* a steering force that is not limited to MAX_FORCE
Steer_unlimited(x, bird) ==
    IF Norm(x) > 0
    THEN VSub(VMul(Normalize(x), MAX_SPEED), bird.velocity)
    ELSE Zeros

\* `if x.norm() > 0.0 { x.normalize() * MAX_SPEED - bird.velocity,
\*  limited to MAX_FORCE }`, else the zero vector.  x is an accumulator
\* divided by `total`; the quotient is carried as its numerator, total > 0
\* being a common positive factor that norm() > 0 and normalize() ignore.
Steer(x, bird) ==
    IF Norm(x) > 0
    THEN limit_vec(VSub(VMul(Normalize(x), MAX_SPEED), bird.velocity), MAX_FORCE)
    ELSE Zeros

\* forces whose cohesion steers toward the neighbours' mean position taken
\* from the origin, not from the bird
Forces_cohesion_absolute(bird, acc) ==
    IF acc.total > 0
    THEN [sep_force   |-> Steer(acc.separation, bird),
          align_force |-> Steer(acc.alignment, bird),
          coh_force   |-> Steer(acc.cohesion, bird)]
    ELSE [sep_force |-> Zeros, align_force |-> Zeros, coh_force |-> Zeros]

\* the three forces, in the order separation, alignment, cohesion
Forces(bird, acc) ==
    IF acc.total > 0
    THEN [sep_force   |-> Steer(acc.separation, bird),
          align_force |-> Steer(acc.alignment, bird),
          coh_force   |-> Steer(VSub(acc.cohesion,
                                     <<acc.total * bird.position[1],
                                       acc.total * bird.position[2],
                                       acc.total * bird.position[3]>>), bird)]
    ELSE [sep_force |-> Zeros, align_force |-> Zeros, coh_force |-> Zeros]

\* the weighted sum of the forces
Combine(f) ==
    VAdd(VAdd(VMul(f.sep_force, SEPARATION_WEIGHT),
              VMul(f.align_force, ALIGNMENT_WEIGHT)),
         VMul(f.coh_force, COHESION_WEIGHT))

Acceleration(bird, snapshot) ==
    Combine(Forces(bird, Scan(bird, snapshot, 0, NoNeighbours)))

\* a velocity update without the speed limit
NewVelocity_unlimited(velocity, acceleration) == VAdd(velocity, acceleration)

\* a velocity update that brings every non-zero velocity to MAX_SPEED
NewVelocity_rescaled(velocity, acceleration) ==
    LET v == VAdd(velocity, acceleration)
    IN  IF Norm(v) > 0 THEN VMul(Normalize(v), MAX_SPEED) ELSE v

\* velocity update and limit speed
NewVelocity(velocity, acceleration) ==
    LET v == VAdd(velocity, acceleration)
    IN  IF Norm(v) > MAX_SPEED THEN VMul(Normalize(v), MAX_SPEED) ELSE v

\* a position update that forgets the wraparound
NewPosition_no_wrap(position, velocity) == VAdd(position, velocity)

\* position update
NewPosition(position, velocity) == wraparound(VAdd(position, velocity))

\* thread-pool variant: the (position, velocity) pair the function returns
calculate_bird_update(index, bird, snapshot) ==
    LET acceleration == Acceleration(bird, snapshot)
        velocity     == NewVelocity(bird.velocity, acceleration)
    IN  <<NewPosition(bird.position, velocity), velocity>>

\* The divisions and normalisations of one update, each as a pair
\* <<site, divisor>>, the divisor of a normalize() being the magnitude of
\* the vector it is applied to.  The sites and their guards are the same in
\* calculate_bird_update and in the rayon closure.

\* limit_vec(v, max): `v.normalize()` under `if v.norm() > max`
LimitVecDivisions(v, max) ==
    IF Norm(v) > max THEN { << "limit_vec", Norm(v) >> } ELSE {}

\* a steering force that normalises the averaged accumulator unconditionally
SteerDivisions_unguarded(x, bird) ==
    { << "normalize", Norm(x) >> }
    \cup IF Norm(x) > 0
         THEN LimitVecDivisions(VSub(VMul(Normalize(x), MAX_SPEED), bird.velocity),
                                MAX_FORCE)
         ELSE {}

\* one force: `x.normalize()` under `if x.norm() > 0.0`, then limit_vec.
\* x is carried as its numerator (see Steer): its norm is that of the
\* average times total.
SteerDivisions(x, bird) ==
    IF Norm(x) > 0
    THEN { << "normalize", Norm(x) >> }
         \cup LimitVecDivisions(VSub(VMul(Normalize(x), MAX_SPEED), bird.velocity),
                                MAX_FORCE)
    ELSE {}

\* the neighbour scan: `/ distance` under
\* `if distance > 0.0 && distance < PERCEPTION_RADIUS`
ScanDivisions(bird, snapshot) ==
    { << "distance", Norm(VSub(bird.position, snapshot[j].position)) >> :
        j \in { k \in DOMAIN snapshot :
                  /\ Norm(VSub(bird.position, snapshot[k].position)) > 0
                  /\ Norm(VSub(bird.position, snapshot[k].position)) < PERCEPTION_RADIUS } }

\* the whole update: the scan, `/= total as f32` and the three forces under
\* `if total > 0`, and the velocity clamp under `if velocity.norm() > MAX_SPEED`
UpdateDivisions(bird, snapshot) ==
    LET acc == Scan(bird, snapshot, 0, NoNeighbours)
        v   == VAdd(bird.velocity, Acceleration(bird, snapshot))
    IN  ScanDivisions(bird, snapshot)
        \cup (IF acc.total > 0
              THEN { << "total", acc.total >> }
                   \cup SteerDivisions(acc.separation, bird)
                   \cup SteerDivisions(acc.alignment, bird)
                   \cup SteerDivisions(VSub(acc.cohesion,
                                            <<acc.total * bird.position[1],
                                              acc.total * bird.position[2],
                                              acc.total * bird.position[3]>>), bird)
              ELSE {})
        \cup (IF Norm(v) > MAX_SPEED THEN { << "clamp", Norm(v) >> } ELSE {})

\* a closure that does not limit its steering forces
RayonSteer_unlimited(x, bird) ==
    IF Norm(x) > 0
    THEN VSub(VMul(Normalize(x), MAX_SPEED), bird.velocity)
    ELSE x

\* rayon variants: one force of the closure.  The accumulator variable is
\* overwritten by the steering force; when its norm is 0 it is left as it is.
RayonSteer(x, bird) ==
    IF Norm(x) > 0
    THEN limit_vec(VSub(VMul(Normalize(x), MAX_SPEED), bird.velocity), MAX_FORCE)
    ELSE x

\* rayon variants: separation, alignment and cohesion as they stand when
\* the closure combines them
RayonForces(bird, acc) ==
    IF acc.total > 0
    THEN [sep_force   |-> RayonSteer(acc.separation, bird),
          align_force |-> RayonSteer(acc.alignment, bird),
          coh_force   |-> RayonSteer(VSub(acc.cohesion,
                                          <<acc.total * bird.position[1],
                                            acc.total * bird.position[2],
                                            acc.total * bird.position[3]>>), bird)]
    ELSE [sep_force   |-> acc.separation,
          align_force |-> acc.alignment,
          coh_force   |-> acc.cohesion]

\* a closure that scans the live store instead of the snapshot
RayonUpdate_scans_live(i, bird, snapshot) ==
    LET acceleration == Combine(RayonForces(bird,
                            Scan(bird, birds, 0, NoNeighbours)))
        velocity     == NewVelocity(bird.velocity, acceleration)
    IN  Bird(NewPosition(bird.position, velocity), velocity, acceleration)

\* rayon variants: the bird the closure leaves behind.  `bird` is the live
\* element the closure mutates, snapshot the birds_snapshot it scans.
RayonUpdate(i, bird, snapshot) ==
    LET acceleration == Combine(RayonForces(bird,
                            Scan(bird, snapshot, 0, NoNeighbours)))
        velocity     == NewVelocity(bird.velocity, acceleration)
    IN  Bird(NewPosition(bird.position, velocity), velocity, acceleration)

----------------------------------------------------------------------------
(* Thread-pool variant: the partition of the store into tasks *)

ChunkSize(n, threads) == (n + threads - 1) \div threads

\* a task count rounded down instead of up
NumTasks_floor(n, threads) == n \div ChunkSize(n, threads)

NumTasks(n, threads) == (n + ChunkSize(n, threads) - 1) \div ChunkSize(n, threads)

TaskStart(thread_id, n, threads) == thread_id * ChunkSize(n, threads)

TaskEnd(thread_id, n, threads) ==
    LET e == TaskStart(thread_id, n, threads) + ChunkSize(n, threads)
    IN  IF e < n THEN e ELSE n

\* the indices `start..end` of a task
TaskRange(thread_id, n, threads) ==
    TaskStart(thread_id, n, threads) .. (TaskEnd(thread_id, n, threads) - 1)


----------------------------------------------------------------------------
(* The store and its initial states *)

Index == 0 .. (NUM_BIRDS - 1)

Steps == 1 .. MaxSteps

Free == <<"free">>

Main == <<"main">>

Task(t) == <<"task", t>>

\* num_tasks of the running program
num_tasks == NumTasks(NUM_BIRDS, num_threads)

Tasks == 0 .. (num_tasks - 1)

\* a vector along the x axis
OnX(x) == <<x, 0, 0>>

\* Bird::new: position drawn from [-5, 5)^3, velocity from [-1, 1)^3,
\* acceleration zero.  The draws the model takes:
\*   at the origin, at rest;
\*   1.0 away from the origin, at rest;
\*   1.0 away from the origin, at speed 1.0 (above MAX_SPEED) backwards;
\*   4.0 away on the other side, at speed 0.1 (below MAX_SPEED).
NewBirds ==
    { Bird(OnX(0), OnX(0), Zeros),
      Bird(OnX(4000), OnX(0), Zeros),
      Bird(OnX(4000), OnX(-4000), Zeros),
      Bird(OnX(-16000), OnX(400), Zeros) }

NoProbe == [kind |-> "none"]

InitSim ==
    /\ birds \in [Index -> NewBirds]
    /\ \/ variant = "pool" /\ num_threads \in 1 .. MaxThreads
       \/ variant = "rayon" /\ num_threads = 1
    /\ step = 0
    /\ main_pc = "idle"
    /\ warned = FALSE
    /\ birds_snapshot = [s \in Steps |-> << >>]
    /\ results = [s \in Steps |-> << >>]
    /\ completed_count = [s \in Steps |-> 0]
    /\ results_lock = [s \in Steps |-> Free]
    /\ count_lock = [s \in Steps |-> Free]
    /\ task_pc = [s \in Steps |-> << >>]
    /\ stalled = {}
    /\ par_done = {}

Init == InitSim /\ probe = NoProbe

----------------------------------------------------------------------------
(* Thread-pool variant: the main thread *)

\* lines 225-255: snapshot, results buffer, counter, one job per chunk
StartStepPool ==
    /\ variant = "pool" /\ main_pc = "idle" /\ step < MaxSteps
    /\ step' = step + 1
    /\ birds_snapshot' = [birds_snapshot EXCEPT ![step + 1] = birds]
    /\ results' = [results EXCEPT ![step + 1] = [i \in Index |-> <<Zeros, Zeros>>]]
    /\ completed_count' = [completed_count EXCEPT ![step + 1] = 0]
    /\ task_pc' = [task_pc EXCEPT ![step + 1] = [t \in Tasks |-> "queued"]]
    /\ main_pc' = "wait"
    /\ warned' = FALSE
    /\ UNCHANGED <<variant, num_threads, birds, results_lock, count_lock,
                   stalled, par_done, probe>>

\* line 258 with every job counted: lock completed_count, find it equal to
\* num_tasks, drop the guard, leave the loop.  (A poll that finds fewer,
\* sleeps 1 ms and polls again changes nothing: it is a stuttering step.)
MainPollDone ==
    /\ variant = "pool" /\ main_pc = "wait"
    /\ count_lock[step] = Free
    /\ completed_count[step] >= num_tasks
    /\ main_pc' = "leave"
    /\ UNCHANGED <<variant, num_threads, birds, step, warned, birds_snapshot,
                   results, completed_count, results_lock, count_lock, task_pc,
                   stalled, par_done, probe>>

\* lines 258-262: a poll that finds fewer than num_tasks, the sleep, and
\* more than 5 s elapsed since wait_start: warn and break.  Five seconds
\* pass only when every job still missing has stopped making progress.
MainTimeout ==
    /\ variant = "pool" /\ main_pc = "wait"
    /\ count_lock[step] = Free
    /\ completed_count[step] < num_tasks
    /\ \A t \in DOMAIN task_pc[step] :
          task_pc[step][t] # "done" => <<step, t>> \in stalled
    /\ main_pc' = "leave"
    /\ warned' = TRUE
    /\ UNCHANGED <<variant, num_threads, birds, step, birds_snapshot,
                   results, completed_count, results_lock, count_lock, task_pc,
                   stalled, par_done, probe>>

\* a merge that copies the positions only
Merged_keeps_velocity(bird, slot) == Bird(slot[1], bird.velocity, Zeros)

\* what the merge loop leaves in bird i, given slot i of the results buffer
Merged(bird, slot) == Bird(slot[1], slot[2], Zeros)

\* lines 266-271: lock results, copy every slot into the live store
MainMerge ==
    /\ variant = "pool" /\ main_pc = "leave"
    /\ results_lock[step] = Free
    /\ results_lock' = [results_lock EXCEPT ![step] = Main]
    /\ birds' = [i \in Index |-> Merged(birds[i], results[step][i])]
    /\ main_pc' = "render"
    /\ UNCHANGED <<variant, num_threads, step, warned, birds_snapshot, results,
                   completed_count, count_lock, task_pc, stalled, par_done, probe>>

\* every job of step s has run to its end
AllDone(s) == \A t \in DOMAIN task_pc[s] : task_pc[s][t] = "done"

\* The snapshot, the results buffer and the counter of a step are freed when
\* the last Arc to them is dropped: at the end of the frame, or at the end
\* of the step's last job if that comes later.
Dropped(per_step, s, empty) == [per_step EXCEPT ![s] = empty]

\* lines 273-316: draw, count the step; results_guard is dropped at the end
EndFrame ==
    /\ main_pc = "render"
    /\ main_pc' = "idle"
    /\ results_lock' = [results_lock EXCEPT ![step] = Free]
    /\ IF variant = "rayon" \/ AllDone(step)
       THEN /\ birds_snapshot' = Dropped(birds_snapshot, step, << >>)
            /\ results' = Dropped(results, step, << >>)
            /\ completed_count' = Dropped(completed_count, step, 0)
            /\ task_pc' = Dropped(task_pc, step, << >>)
       ELSE UNCHANGED <<birds_snapshot, results, completed_count, task_pc>>
    /\ UNCHANGED <<variant, num_threads, birds, step, warned, count_lock,
                   stalled, par_done, probe>>

----------------------------------------------------------------------------
(* Thread-pool variant: the pool jobs (lines 239-254) *)

Started(s) == task_pc[s] # << >>

JobsOf(s) == IF Started(s) THEN DOMAIN task_pc[s] ELSE {}

\* the main thread has finished the frame of step s: nothing reads the
\* step's results buffer or counter any more, only its late jobs hold them
Abandoned(s) == s < step \/ (s = step /\ main_pc = "idle")

\* a stalled job takes no step while the main thread polls for its step; it
\* may move again, or never, once the main thread has left the wait loop
Frozen(s, t) == <<s, t>> \in stalled /\ s = step /\ main_pc = "wait"

\* a job that reads, for the agents whose slot of the results buffer has
\* been written already, that new state instead of the snapshot's
LocalResults_sees_results(s, t) ==
    LET seen == [j \in Index |->
                    IF results[s][j] # <<Zeros, Zeros>>
                    THEN Bird(results[s][j][1], results[s][j][2], Zeros)
                    ELSE birds_snapshot[s][j]]
    IN  [i \in TaskRange(t, NUM_BIRDS, num_threads) |->
            calculate_bird_update(i, birds_snapshot[s][i],
                                  [seen EXCEPT ![i] = birds_snapshot[s][i]])]

\* a job that hands calculate_bird_update its own chunk of the snapshot
\* instead of the whole snapshot
LocalResults_scans_chunk(s, t) ==
    [i \in TaskRange(t, NUM_BIRDS, num_threads) |->
        calculate_bird_update(i, birds_snapshot[s][i],
            [j \in TaskRange(t, NUM_BIRDS, num_threads) |-> birds_snapshot[s][j]])]

\* lines 240-245: the updates of the job's chunk, from its clone of the snapshot
LocalResults(s, t) ==
    [i \in TaskRange(t, NUM_BIRDS, num_threads) |->
        calculate_bird_update(i, birds_snapshot[s][i], birds_snapshot[s])]

\* a store loop that misses the first update of the chunk
Stored_skips_first(buffer, local_results) ==
    [i \in DOMAIN buffer |->
        IF i \in DOMAIN local_results
              /\ \E k \in DOMAIN local_results : k < i
        THEN local_results[i] ELSE buffer[i]]

\* lines 248-250: the results buffer after the job has stored its updates
Stored(buffer, local_results) ==
    [i \in DOMAIN buffer |->
        IF i \in DOMAIN local_results THEN local_results[i] ELSE buffer[i]]

\* lines 240-250: compute the chunk, lock results, store the updates.
\* "queued" covers the job waiting in the pool's queue, computing, and
\* blocked on the results mutex.
WorkerWrite(s, t) ==
    /\ variant = "pool" /\ t \in JobsOf(s) /\ ~Abandoned(s)
    /\ task_pc[s][t] = "queued" /\ ~Frozen(s, t)
    /\ results_lock[s] = Free
    /\ results_lock' = [results_lock EXCEPT ![s] = Task(t)]
    /\ results' = [results EXCEPT ![s] = Stored(results[s], LocalResults(s, t))]
    /\ task_pc' = [task_pc EXCEPT ![s][t] = "has_results"]
    /\ UNCHANGED <<variant, num_threads, birds, step, main_pc, warned,
                   birds_snapshot, completed_count, count_lock, stalled,
                   par_done, probe>>

\* a job that locks completed_count and leaves it as it is
WorkerCount_adds_nothing(s, t) ==
    /\ variant = "pool" /\ t \in JobsOf(s)
    /\ task_pc[s][t] = "has_results" /\ ~Frozen(s, t)
    /\ count_lock[s] = Free
    /\ count_lock' = [count_lock EXCEPT ![s] = Task(t)]
    /\ task_pc' = [task_pc EXCEPT ![s][t] = "has_count"]
    /\ UNCHANGED <<variant, num_threads, birds, step, main_pc, warned,
                   birds_snapshot, results, completed_count, results_lock,
                   stalled, par_done, probe>>

\* lines 252-253: lock completed_count and add one, still holding results
WorkerCount(s, t) ==
    /\ variant = "pool" /\ t \in JobsOf(s)
    /\ task_pc[s][t] = "has_results" /\ ~Frozen(s, t)
    /\ count_lock[s] = Free
    /\ count_lock' = [count_lock EXCEPT ![s] = Task(t)]
    /\ completed_count' = [completed_count EXCEPT ![s] = completed_count[s] + 1]
    /\ task_pc' = [task_pc EXCEPT ![s][t] = "has_count"]
    /\ UNCHANGED <<variant, num_threads, birds, step, main_pc, warned,
                   birds_snapshot, results, results_lock, stalled, par_done, probe>>

\* line 254: the closure ends, both guards are dropped
WorkerFinish(s, t) ==
    /\ variant = "pool" /\ t \in JobsOf(s)
    /\ task_pc[s][t] = "has_count" /\ ~Frozen(s, t)
    /\ count_lock' = [count_lock EXCEPT ![s] = Free]
    /\ results_lock' = [results_lock EXCEPT ![s] = Free]
    /\ task_pc' = [task_pc EXCEPT ![s][t] = "done"]
    /\ UNCHANGED <<variant, num_threads, birds, step, main_pc, warned,
                   birds_snapshot, results, completed_count, stalled, par_done,
                   probe>>

\* a late job whose results buffer and counter are those of the running
\* step, as if each were allocated once and used again by every step
WorkerLate_reused_buffers(s, t) ==
    /\ variant = "pool" /\ t \in JobsOf(s) /\ Abandoned(s)
    /\ task_pc[s][t] = "queued"
    /\ results_lock[s] = Free /\ count_lock[s] = Free
    /\ results' = [results EXCEPT
                      ![step] = Stored(results[step], LocalResults(s, t))]
    /\ completed_count' = [completed_count EXCEPT
                              ![step] = completed_count[step] + 1]
    /\ task_pc' = [task_pc EXCEPT ![s][t] = "done"]
    /\ UNCHANGED <<variant, num_threads, birds, step, main_pc, warned,
                   birds_snapshot, results_lock, count_lock, stalled,
                   par_done, probe>>

\* lines 240-254 for a job that takes the results mutex of an abandoned
\* step: its three steps (store, count, drop the guards) touch only that
\* step's buffer, counter and mutexes, which nothing but the step's other
\* late jobs can reach, and those are kept out by the results mutex: the
\* three steps are taken as one
WorkerLate(s, t) ==
    /\ variant = "pool" /\ t \in JobsOf(s) /\ Abandoned(s)
    /\ task_pc[s][t] = "queued"
    /\ results_lock[s] = Free /\ count_lock[s] = Free
    /\ IF \A u \in JobsOf(s) \ {t} : task_pc[s][u] = "done"
       THEN /\ birds_snapshot' = Dropped(birds_snapshot, s, << >>)
            /\ results' = Dropped(results, s, << >>)
            /\ completed_count' = Dropped(completed_count, s, 0)
            /\ task_pc' = Dropped(task_pc, s, << >>)
       ELSE /\ results' = [results EXCEPT
                              ![s] = Stored(results[s], LocalResults(s, t))]
            /\ completed_count' = [completed_count EXCEPT
                                      ![s] = completed_count[s] + 1]
            /\ task_pc' = [task_pc EXCEPT ![s][t] = "done"]
            /\ UNCHANGED birds_snapshot
    /\ UNCHANGED <<variant, num_threads, birds, step, main_pc, warned,
                   results_lock, count_lock, stalled, par_done, probe>>

\* a job stops making progress where it is (descheduled, blocked, looping)
WorkerStall(s, t) ==
    /\ variant = "pool" /\ t \in JobsOf(s) /\ s = step /\ main_pc = "wait"
    /\ task_pc[s][t] \in {"queued", "has_results", "has_count"}
    /\ <<s, t>> \notin stalled
    /\ Cardinality(stalled) < MaxStalled
    /\ stalled' = stalled \cup {<<s, t>>}
    /\ UNCHANGED <<variant, num_threads, birds, step, main_pc, warned,
                   birds_snapshot, results, completed_count, results_lock,
                   count_lock, task_pc, par_done, probe>>

----------------------------------------------------------------------------
(* rayon variants (src/rayon lines 186-254, src/src lines 153-213) *)

\* birds_snapshot = birds.clone(); par_iter_mut().for_each starts
StartStepRayon ==
    /\ variant = "rayon" /\ main_pc = "idle" /\ step < MaxSteps
    /\ step' = step + 1
    /\ birds_snapshot' = [birds_snapshot EXCEPT ![step + 1] = birds]
    /\ par_done' = {}
    /\ main_pc' = "par"
    /\ warned' = FALSE
    /\ UNCHANGED <<variant, num_threads, birds, poolVars, probe>>

\* the closure runs on element i of the live store
RayonClosure(i) ==
    /\ variant = "rayon" /\ main_pc = "par"
    /\ i \notin par_done
    /\ birds' = [birds EXCEPT ![i] = RayonUpdate(i, birds[i], birds_snapshot[step])]
    /\ par_done' = par_done \cup {i}
    /\ UNCHANGED <<variant, num_threads, step, main_pc, warned, birds_snapshot,
                   poolVars, probe>>

\* for_each returns when the closure has run on every element
RayonJoin ==
    /\ variant = "rayon" /\ main_pc = "par"
    /\ par_done = Index
    /\ main_pc' = "render"
    /\ UNCHANGED <<variant, num_threads, birds, step, warned, birds_snapshot,
                   poolVars, par_done, probe>>

----------------------------------------------------------------------------

Next ==
    \/ StartStepPool
    \/ MainPollDone
    \/ MainTimeout
    \/ MainMerge
    \/ EndFrame
    \/ \E s \in Steps, t \in 0 .. NUM_BIRDS : WorkerWrite(s, t)
    \/ \E s \in Steps, t \in 0 .. NUM_BIRDS : WorkerCount(s, t)
    \/ \E s \in Steps, t \in 0 .. NUM_BIRDS : WorkerFinish(s, t)
    \/ \E s \in Steps, t \in 0 .. NUM_BIRDS : WorkerLate(s, t)
    \/ \E s \in Steps, t \in 0 .. NUM_BIRDS : WorkerStall(s, t)
    \/ StartStepRayon
    \/ \E i \in Index : RayonClosure(i)
    \/ RayonJoin

Spec == Init /\ [][Next]_vars

----------------------------------------------------------------------------
(* The thread-pool program with its scheduling *)

\* the draws of Bird::new the scheduling is followed from: which jobs run
\* and when does not depend on the agents' values, so two draws (at rest
\* at the origin; 1.0 away at speed 1.0) stand for all
PoolBirds ==
    { Bird(OnX(0), OnX(0), Zeros),
      Bird(OnX(4000), OnX(-4000), Zeros) }

InitPool == Init /\ variant = "pool" /\ birds \in [Index -> PoolBirds]

\* the steps of the main thread
MainStep ==
    \/ StartStepPool
    \/ MainPollDone
    \/ MainTimeout
    \/ MainMerge
    \/ EndFrame

\* the steps of job t of step s
WorkerStep(s, t) ==
    \/ WorkerWrite(s, t)
    \/ WorkerCount(s, t)
    \/ WorkerFinish(s, t)
    \/ WorkerLate(s, t)

NextPool ==
    \/ MainStep
    \/ \E s \in Steps, t \in 0 .. NUM_BIRDS : WorkerStep(s, t)
    \/ \E s \in Steps, t \in 0 .. NUM_BIRDS : WorkerStall(s, t)

\* job t of step s can take its next step: the conditions under which
\* WorkerWrite, WorkerCount, WorkerFinish or WorkerLate is possible
WorkerCanStep(s, t) ==
    /\ variant = "pool" /\ t \in JobsOf(s)
    /\ \/ /\ task_pc[s][t] = "queued" /\ ~Abandoned(s) /\ ~Frozen(s, t)
          /\ results_lock[s] = Free
       \/ /\ task_pc[s][t] = "has_results" /\ ~Frozen(s, t)
          /\ count_lock[s] = Free
       \/ /\ task_pc[s][t] = "has_count" /\ ~Frozen(s, t)
       \/ /\ task_pc[s][t] = "queued" /\ Abandoned(s)
          /\ results_lock[s] = Free /\ count_lock[s] = Free

\* job t of step s moves on: a step of WorkerStep(s, t) seen by the place
\* the job is at, whatever the step stores in the buffer, the counter and
\* the mutexes
WorkerTurn(s, t) ==
    /\ WorkerCanStep(s, t)
    /\ task_pc' \in { [task_pc EXCEPT ![s][t] = pc] :
                         pc \in {"has_results", "has_count", "done"} }
                    \cup { Dropped(task_pc, s, << >>) }
    /\ UNCHANGED <<variant, num_threads, birds, step, main_pc, warned,
                   stalled, par_done, probe>>

\* The main thread is a running thread: a step it can take, it takes.  The
\* pool has num_threads workers for at most num_threads jobs a step, and
\* the operating system runs every runnable thread: a job that is not
\* stalled and whose next step stays possible takes it.  A job locks each
\* mutex once, so no job can be overtaken at a mutex for ever.  (The
\* fairness of a job is stated on WorkerTurn, which is possible exactly
\* when WorkerStep is and which every step of WorkerStep is.)
FairPool ==
    /\ WF_vars(MainStep)
    /\ \A s \in Steps, t \in 0 .. NUM_BIRDS : WF_task_pc(WorkerTurn(s, t))

SpecFair == InitPool /\ [][NextPool]_vars /\ FairPool

----------------------------------------------------------------------------
(* The pure functions on their own: an input is drawn, the function applied *)

\* the width of the domain
Width == SPACE_MAX - SPACE_MIN

\* coordinates inside the domain, on its faces, and up to MaxWidths widths
\* (plus 0, 1/4000 or 0.1) beyond either face
WrapCoords ==
    {0, 100}
    \cup { SPACE_MAX + k * Width + d : k \in 0 .. MaxWidths, d \in {0, 1, 400} }
    \cup { SPACE_MIN - k * Width - d : k \in 0 .. MaxWidths, d \in {0, 1, 400} }

\* vectors along the axes and along 3-4-5 directions, of length 0 to 1.25
LimitVectors ==
    { << 3 * k, 4 * k, 0 >> : k \in {0, 20, 24, 100, 120, 1000} }
    \cup { << 0, -3 * k, 4 * k >> : k \in {20, 24, 100, 1000} }
    \cup { << -4 * k, 0, -3 * k >> : k \in {24, 100, 120} }
    \cup { << k, 0, 0 >> : k \in {-5000, -500, 100, 120, 121, 500, 501} }
    \cup { << 0, 0, k >> : k \in {-120, 1, 499, 4000} }

\* the bounds limit_vec is called with, and 0
LimitBounds == {0, MAX_FORCE, MAX_SPEED}

\* stores for one update: the birds lie on a line parallel to the x axis
\* through `base`, which may be far outside the domain on every axis; the
\* velocities are along x, of magnitude at most MAX_SPEED
UpdateBases ==
    { << bx, by, bz >> :
        bx \in {0, SPACE_MAX, SPACE_MAX + 3 * Width, SPACE_MIN - 2 * Width},
        by \in {0, SPACE_MIN - Width - 400},
        bz \in {100, SPACE_MAX + 2 * Width + 1} }

UpdateOffsets == {-400, 0, 4000}

UpdateVelocities == {-MAX_SPEED, 0, 400, MAX_SPEED}

\* a store for one update: the bird at offset off[i] from base, with
\* velocity vel[i]
UpdateStore(base, off, vel) ==
    [i \in Index |-> Bird(VAdd(base, OnX(off[i])), OnX(vel[i]), Zeros)]

\* birds on the x axis as a run can hold them:
\*   at rest at 0, at 1.0, at PERCEPTION_RADIUS (1.9) and at 2.0;
\*   at 1.0, as drawn by Bird::new with speed 1.0;
\*   far from the others, at speed 0.1;
\*   0.025 from the +x face, flying into it at MAX_SPEED, with the
\*   acceleration an earlier rayon step left;
\*   near the origin, with the velocity and acceleration of a first step;
\*   at rest 0.025 from the -x face.
FlockBirds ==
    { Bird(OnX(0), OnX(0), Zeros),
      Bird(OnX(4000), OnX(0), Zeros),
      Bird(OnX(PERCEPTION_RADIUS), OnX(0), Zeros),
      Bird(OnX(8000), OnX(0), Zeros),
      Bird(OnX(4000), OnX(-4000), Zeros),
      Bird(OnX(-16000), OnX(400), Zeros),
      Bird(OnX(SPACE_MAX - 100), OnX(MAX_SPEED), OnX(-240)),
      Bird(OnX(-240), OnX(-240), OnX(-240)),
      Bird(OnX(SPACE_MIN + 100), OnX(0), Zeros) }

FlockStores == [Index -> FlockBirds]

\* the one agent of a population of one:
\*   as drawn by Bird::new, faster than MAX_SPEED along x, or off the axes;
\*   at rest;
\*   0.1 from the +x face flying into it at MAX_SPEED;
\*   0.15 from the -x face flying into it at speed 0.1.
SingleBirds ==
    { Bird(OnX(0), OnX(-4000), Zeros),
      Bird(OnX(16000), << 2400, 3200, 0 >>, Zeros),
      Bird(OnX(4000), Zeros, Zeros),
      Bird(OnX(SPACE_MAX - 400), OnX(MAX_SPEED), Zeros),
      Bird(OnX(SPACE_MIN + 600), OnX(-400), Zeros) }

\* a store of one bird
OnlyBird(bird) == [i \in {0} |-> bird]

\* the record of a population of one before its first step
SingleRun(bird) ==
    [kind |-> "single", pc |-> "run", n |-> 0, in |-> bird,
     pool |-> OnlyBird(bird), rayon |-> OnlyBird(bird),
     prev_pool |-> OnlyBird(bird), prev_rayon |-> OnlyBird(bird)]

\* the inputs: a vector for wraparound, a store for one update with all it
\* computes, a population of one, a vector and a bound for limit_vec, a
\* population and a pool size for the chunking, a store for one update
ProbeInput ==
    \/ \E x \in WrapCoords, y \in WrapCoords, z \in WrapCoords :
          probe = [kind |-> "wraparound", pc |-> "input", in |-> << x, y, z >>]
    \/ \E store \in FlockStores :
          probe = [kind |-> "flock", pc |-> "input", in |-> store]
    \/ \E bird \in SingleBirds : probe = SingleRun(bird)
    \/ \E v \in LimitVectors, m \in LimitBounds :
          probe = [kind |-> "limit_vec", pc |-> "input", in |-> [v |-> v, max |-> m]]
    \/ \E n \in 1 .. MaxChunkBirds, t \in 1 .. MaxChunkThreads :
          probe = [kind |-> "chunks", pc |-> "input", in |-> [n |-> n, threads |-> t]]
    \/ \E base \in UpdateBases, off \in [Index -> UpdateOffsets],
           vel \in [Index -> UpdateVelocities] :
          probe = [kind |-> "update", pc |-> "input",
                   in |-> UpdateStore(base, off, vel)]

\* the simulation is not running while a function is probed
InitFn ==
    /\ ProbeInput
    /\ variant = "none" /\ num_threads = 1
    /\ birds = [i \in Index |-> Bird(Zeros, Zeros, Zeros)]
    /\ step = 0
    /\ main_pc = "idle"
    /\ warned = FALSE
    /\ birds_snapshot = [s \in Steps |-> << >>]
    /\ results = [s \in Steps |-> << >>]
    /\ completed_count = [s \in Steps |-> 0]
    /\ results_lock = [s \in Steps |-> Free]
    /\ count_lock = [s \in Steps |-> Free]
    /\ task_pc = [s \in Steps |-> << >>]
    /\ stalled = {}
    /\ par_done = {}

ApplyWraparound ==
    /\ probe.kind = "wraparound" /\ probe.pc = "input"
    /\ probe' = [kind |-> "wraparound", pc |-> "applied", in |-> probe.in,
                 out |-> wraparound(probe.in)]
    /\ UNCHANGED simVars

\* wraparound applied to its own result
ApplyWraparoundAgain ==
    /\ probe.kind = "wraparound" /\ probe.pc = "applied"
    /\ probe' = [kind |-> "wraparound", pc |-> "again", in |-> probe.in,
                 out |-> probe.out, out2 |-> wraparound(probe.out)]
    /\ UNCHANGED simVars

ApplyLimitVec ==
    /\ probe.kind = "limit_vec" /\ probe.pc = "input"
    /\ probe' = [kind |-> "limit_vec", pc |-> "applied", in |-> probe.in,
                 out |-> limit_vec(probe.in.v, probe.in.max)]
    /\ UNCHANGED simVars

\* lines 227-233 of the thread-pool variant: the (start, end) of every task
ApplyChunks ==
    /\ probe.kind = "chunks" /\ probe.pc = "input"
    /\ probe' = [kind |-> "chunks", pc |-> "applied", in |-> probe.in,
                 out |-> [t \in 0 .. (NumTasks(probe.in.n, probe.in.threads) - 1) |->
                            << TaskStart(t, probe.in.n, probe.in.threads),
                               TaskEnd(t, probe.in.n, probe.in.threads) >>]]
    /\ UNCHANGED simVars

\* one update of every bird of a store, by the thread-pool function and by
\* the rayon closure
ApplyUpdate ==
    /\ probe.kind = "update" /\ probe.pc = "input"
    /\ probe' = [kind |-> "update", pc |-> "applied", in |-> probe.in,
                 out |-> [pool  |-> [i \in Index |->
                                       calculate_bird_update(i, probe.in[i], probe.in)],
                          rayon |-> [i \in Index |->
                                       RayonUpdate(i, probe.in[i], probe.in)]]]
    /\ UNCHANGED simVars

\* one update of every bird of a store with everything the update computes
\* on the way: the accumulators after the neighbour scan, the three forces
\* of calculate_bird_update and of the rayon closure, the acceleration, the
\* divisions performed, and the results
ApplyFlock ==
    /\ probe.kind = "flock" /\ probe.pc = "input"
    /\ probe' = [kind |-> "flock", pc |-> "applied", in |-> probe.in,
                 out |-> [i \in Index |->
                     LET acc == Scan(probe.in[i], probe.in, 0, NoNeighbours)
                     IN  [acc          |-> acc,
                          forces       |-> Forces(probe.in[i], acc),
                          rayon_forces |-> RayonForces(probe.in[i], acc),
                          acceleration |-> Acceleration(probe.in[i], probe.in),
                          divisions    |-> UpdateDivisions(probe.in[i], probe.in),
                          pool         |-> calculate_bird_update(i, probe.in[i], probe.in),
                          rayon        |-> RayonUpdate(i, probe.in[i], probe.in)]]]
    /\ UNCHANGED simVars

\* one more step of a population of one: in the thread-pool variant the
\* one job's update is merged, in the rayon variants the closure runs on
\* the one element
StepSingle ==
    /\ probe.kind = "single" /\ probe.n < MaxSingleSteps
    /\ probe' = [probe EXCEPT
                    !.n = probe.n + 1,
                    !.prev_pool = probe.pool,
                    !.prev_rayon = probe.rayon,
                    !.pool = OnlyBird(Merged(probe.pool[0],
                                 calculate_bird_update(0, probe.pool[0], probe.pool))),
                    !.rayon = OnlyBird(RayonUpdate(0, probe.rayon[0], probe.rayon))]
    /\ UNCHANGED simVars

NextFn ==
    \/ StepSingle
    \/ ApplyFlock
    \/ ApplyWraparound
    \/ ApplyWraparoundAgain
    \/ ApplyLimitVec
    \/ ApplyChunks
    \/ ApplyUpdate

SpecFn == InitFn /\ [][NextFn]_vars

----------------------------------------------------------------------------
(* Claims about the pure functions, checked under SpecFn *)

InDomain(x) == SPACE_MIN <= x /\ x <= SPACE_MAX

Axes == 1 .. 3

\* C3: wraparound handles any overshoot in one call: a coordinate below
\* SPACE_MIN or above SPACE_MAX, by any number of domain widths, comes back
\* inside [SPACE_MIN, SPACE_MAX] and congruent to the input modulo the
\* width; SPACE_MAX + 3 widths + 0.1 comes back as SPACE_MIN + 0.1.
C3_WrapsAnyOvershoot ==
    (probe.kind = "wraparound" /\ probe.pc = "applied") =>
        \A k \in Axes :
            /\ ~InDomain(probe.in[k]) =>
                  /\ InDomain(probe.out[k])
                  /\ (probe.out[k] - probe.in[k]) % Width = 0
            /\ probe.in[k] = SPACE_MAX + 3 * Width + 400 =>
                  probe.out[k] = SPACE_MIN + 400

\* a coordinate more than three widths above the domain, another more than
\* two widths below it, have been wrapped
C3_Witness ==
    /\ probe.kind = "wraparound" /\ probe.pc = "applied"
    /\ probe.in[1] = SPACE_MAX + 3 * Width + 400
    /\ probe.in[2] < SPACE_MIN - 2 * Width
    /\ probe.out[1] = SPACE_MIN + 400

\* C4: wraparound returns every coordinate of [SPACE_MIN, SPACE_MAX], the two
\* faces included, unchanged; and applied to its own result it changes nothing.
C4_WrapIdentityInDomain ==
    /\ (probe.kind = "wraparound" /\ probe.pc \in {"applied", "again"}) =>
          \A k \in Axes : InDomain(probe.in[k]) => probe.out[k] = probe.in[k]
    /\ (probe.kind = "wraparound" /\ probe.pc = "again") =>
          probe.out2 = probe.out

\* both faces were given, with a coordinate outside, and wraparound applied twice
C4_Witness ==
    /\ probe.kind = "wraparound" /\ probe.pc = "again"
    /\ probe.in[1] = SPACE_MIN /\ probe.in[2] = SPACE_MAX
    /\ probe.in[3] > SPACE_MAX
    /\ probe.out[1] = SPACE_MIN /\ probe.out[2] = SPACE_MAX

\* C5: limit_vec(v, max), max >= 0: a vector of magnitude at most max comes
\* back unchanged; a longer one comes back with magnitude max and the
\* direction of v (it is v scaled by max / |v|).
C5_LimitVec ==
    (probe.kind = "limit_vec" /\ probe.pc = "applied") =>
        LET v   == probe.in.v
            max == probe.in.max
            out == probe.out
        IN  /\ NormSq(v) <= max * max => out = v
            /\ NormSq(v) > max * max =>
                  /\ NormSq(out) = max * max
                  /\ \A k \in Axes : Sqrt(NormSq(v)) * out[k] = max * v[k]

\* a vector off the axes and longer than MAX_FORCE has been limited to it
C5_Witness ==
    /\ probe.kind = "limit_vec" /\ probe.pc = "applied"
    /\ probe.in.v = << 0, -300, 400 >> /\ probe.in.max = MAX_FORCE
    /\ probe.out = << 0, -72, 96 >>

\* C6: for every NUM_BIRDS >= 1 and num_threads >= 1 the ranges
\* [start, end) of the tasks 0..num_tasks-1 are non-empty, lie inside
\* 0..NUM_BIRDS, and every index belongs to exactly one of them: every slot
\* of the results buffer is written by exactly one task.
C6_OneWriterPerSlot ==
    (probe.kind = "chunks" /\ probe.pc = "applied") =>
        /\ \A t \in DOMAIN probe.out :
              /\ 0 <= probe.out[t][1]
              /\ probe.out[t][1] < probe.out[t][2]
              /\ probe.out[t][2] <= probe.in.n
        /\ \A i \in 0 .. (probe.in.n - 1) :
              Cardinality({ t \in DOMAIN probe.out :
                              probe.out[t][1] <= i /\ i < probe.out[t][2] }) = 1

\* seven birds on three threads: three tasks, the last one shorter
C6_Witness ==
    /\ probe.kind = "chunks" /\ probe.pc = "applied"
    /\ probe.in.n = 7 /\ probe.in.threads = 3
    /\ probe.out = [t \in 0 .. 2 |-> IF t = 0 THEN << 0, 3 >>
                                     ELSE IF t = 1 THEN << 3, 6 >> ELSE << 6, 7 >>]

\* C2: after an update every coordinate of every position lies within
\* [SPACE_MIN, SPACE_MAX], whatever the position before (far outside the
\* domain included) and for any velocity of magnitude at most MAX_SPEED.
C2_PositionsInDomain ==
    (probe.kind = "update" /\ probe.pc = "applied") =>
        \A i \in Index : \A k \in Axes :
            /\ InDomain(probe.out.pool[i][1][k])
            /\ InDomain(probe.out.rayon[i].position[k])

\* the store was more than three widths outside the domain on x, outside on
\* y and z too, and bird 0 moved at MAX_SPEED
C2_Witness ==
    /\ probe.kind = "update" /\ probe.pc = "applied"
    /\ probe.in[0].position[1] > SPACE_MAX + 3 * Width
    /\ probe.in[0].position[2] < SPACE_MIN
    /\ probe.in[0].position[3] > SPACE_MAX
    /\ probe.in[0].velocity = OnX(MAX_SPEED)
    /\ probe.out.pool[0][1][1] < SPACE_MAX

----------------------------------------------------------------------------
(* Claims about the steps of a run, checked under Spec *)

\* the main thread has finished the parallel phase of the current step:
\* rayon's for_each has returned, or the thread-pool merge has run
StepDone == step >= 1 /\ main_pc = "render"

\* C1: after every step, in both variants and also when the wait loop of the
\* thread-pool variant ended by its timeout, every bird's velocity has
\* magnitude at most MAX_SPEED, whatever it was before the step.
C1_SpeedLimited ==
    (step >= 1 /\ main_pc \in {"render", "idle"}) =>
        \A i \in Index : NormSq(birds[i].velocity) <= MAX_SPEED * MAX_SPEED

\* a thread-pool step that timed out has been merged; before it one bird
\* was faster than MAX_SPEED and it now flies at MAX_SPEED, and another
\* bird's slot was never written
C1_Witness ==
    /\ variant = "pool" /\ StepDone /\ warned
    /\ \E i \in Index :
          /\ NormSq(birds_snapshot[step][i].velocity) > MAX_SPEED * MAX_SPEED
          /\ NormSq(birds[i].velocity) = MAX_SPEED * MAX_SPEED
    /\ \E t \in DOMAIN task_pc[step] : task_pc[step][t] = "queued"

\* the agents processed one after the other in index order, each update
\* written in place before the next agent is processed
RECURSIVE SequentialRayon(_, _, _)
SequentialRayon(store, snapshot, i) ==
    IF i \notin DOMAIN store THEN store
    ELSE SequentialRayon([store EXCEPT ![i] = RayonUpdate(i, store[i], snapshot)],
                         snapshot, i + 1)

RECURSIVE SequentialPool(_, _, _)
SequentialPool(store, snapshot, i) ==
    IF i \notin DOMAIN store THEN store
    ELSE SequentialPool(
             [store EXCEPT ![i] = Merged(store[i],
                                         calculate_bird_update(i, snapshot[i], snapshot))],
             snapshot, i + 1)

\* C10: the order and interleaving in which the agents are processed within
\* a step does not matter: however the rayon closures, or the pool jobs
\* (all of them completing before the merge), were scheduled, every agent
\* ends the step with the position and velocity that processing the agents
\* one by one in index order gives.
C10_OrderIrrelevant ==
    /\ (variant = "rayon" /\ StepDone) =>
          LET seq == SequentialRayon(birds_snapshot[step], birds_snapshot[step], 0)
          IN  \A i \in Index : /\ birds[i].position = seq[i].position
                               /\ birds[i].velocity = seq[i].velocity
    /\ (variant = "pool" /\ StepDone /\ AllDone(step)) =>
          LET seq == SequentialPool(birds_snapshot[step], birds_snapshot[step], 0)
          IN  \A i \in Index : /\ birds[i].position = seq[i].position
                               /\ birds[i].velocity = seq[i].velocity

\* a rayon step is over in which two neighbours, one of them moving, were
\* both updated and both changed
C10_Witness ==
    /\ variant = "rayon" /\ StepDone
    /\ \E i, j \in Index :
          /\ i # j
          /\ Scan(birds_snapshot[step][i], birds_snapshot[step], 0, NoNeighbours).total > 0
          /\ birds_snapshot[step][j].velocity # Zeros
          /\ birds[i] # birds_snapshot[step][i]
          /\ birds[j] # birds_snapshot[step][j]

\* the (position, velocity) of a bird
State(bird) == << bird.position, bird.velocity >>

\* the step-n update of agent i is what the live store holds for it
Committed(i) ==
    IF variant = "pool"
    THEN State(birds[i]) = calculate_bird_update(i, birds_snapshot[step][i],
                                                 birds_snapshot[step])
    ELSE State(birds[i]) = State(RayonUpdate(i, birds_snapshot[step][i],
                                           birds_snapshot[step]))

\* C7: steps are strictly sequential: when the main thread is through with
\* the parallel phase of step n (wait loop left by completion or by
\* timeout, merge done), so that the next snapshot will be a clone of this
\* store, every agent's step-n update has been committed to the store.
C7_StepsSequential == StepDone => \A i \in Index : Committed(i)

\* C8: a stalled job never corrupts the store: after the hand-off of a
\* thread-pool step every agent's (position, velocity) is either what it
\* was before the step or what calculate_bird_update computes for it from
\* the step's snapshot.
C8_NoCorruption ==
    (variant = "pool" /\ StepDone) =>
        \A i \in Index :
            \/ State(birds[i]) = State(birds_snapshot[step][i])
            \/ State(birds[i]) = calculate_bird_update(i, birds_snapshot[step][i],
                                                       birds_snapshot[step])

\* the main thread is at a lock() that job j, which has stalled, holds
MainWaitsFor(j) ==
    /\ j[1] = step
    /\ \/ main_pc = "wait" /\ count_lock[step] = Task(j[2])
       \/ main_pc = "leave" /\ results_lock[step] = Task(j[2])

\* C9: wherever a job stalls, the main thread's wait is bounded by the
\* timeout: it is never blocked on something only the stalled job can end.
C9_BoundedWait == \A j \in stalled : ~MainWaitsFor(j)

\* lines 227-250 for a pool of `threads` threads: the results buffer once
\* every task of that partition has stored the updates of its chunk
Partitioned(snapshot, threads) ==
    [i \in Index |->
        LET t == CHOOSE t \in 0 .. (NumTasks(NUM_BIRDS, threads) - 1) :
                     i \in TaskRange(t, NUM_BIRDS, threads)
        IN  calculate_bird_update(i, snapshot[i], snapshot)]

\* C11: determinism under re-partitioning: after a thread-pool step whose
\* tasks all completed, the (position, velocity) merged for agent i is
\* calculate_bird_update(i, snapshot[i], snapshot), whatever num_threads
\* (and so the chunk size) of the run is: it is what every other partition
\* of the store into chunks gives for the same snapshot.
C11_PartitionIndependent ==
    (variant = "pool" /\ StepDone /\ AllDone(step)) =>
        \A i \in Index :
            /\ State(birds[i]) = calculate_bird_update(i, birds_snapshot[step][i],
                                                       birds_snapshot[step])
            /\ \A threads \in 1 .. (MaxThreads + 1) :
                  State(birds[i]) = Partitioned(birds_snapshot[step], threads)[i]

\* a step of more than one task has completed and been merged, in which an
\* agent was steered by a neighbour that another task updated
C11_Witness ==
    /\ variant = "pool" /\ StepDone /\ AllDone(step)
    /\ num_tasks > 1
    /\ \E i \in Index :
          /\ Scan(birds_snapshot[step][i], birds_snapshot[step], 0, NoNeighbours).total > 0
          /\ Acceleration(birds_snapshot[step][i], birds_snapshot[step]) # Zeros
          /\ State(birds[i]) # State(birds_snapshot[step][i])

\* every value a step writes, into the live store or into a results
\* buffer, was computed from the step-start state of every agent: a rayon
\* closure leaves in element i the position and velocity that the update
\* of snapshot entry i computed from the snapshot alone has; a pool job stores in slot i what calculate_bird_update
\* gives for snapshot entry i and the snapshot (jobs running late, after
\* their step was abandoned, included); and the thread-pool store is
\* written by the merge only
WritesFromStepStart ==
    /\ variant = "rayon" =>
          \A i \in Index : birds'[i] # birds[i] =>
              /\ main_pc = "par"
              /\ State(birds'[i]) = calculate_bird_update(i, birds_snapshot[step][i],
                                                          birds_snapshot[step])
    /\ variant = "pool" =>
          /\ \A i \in Index : birds'[i] # birds[i] =>
                (main_pc = "leave" /\ State(birds'[i]) = results[step][i])
          /\ \A s \in Steps : (results[s] # << >> /\ results'[s] # << >>) =>
                \A i \in Index : results'[s][i] # results[s][i] =>
                    results'[s][i] = calculate_bird_update(i, birds_snapshot[s][i],
                                                           birds_snapshot[s])

\* a snapshot is a clone of the live store taken when its step starts, and
\* stays as it is until it is freed
SnapshotFrozen ==
    \A s \in Steps :
        /\ birds_snapshot[s] # << >> => birds_snapshot'[s] \in {birds_snapshot[s], << >>}
        /\ (birds_snapshot[s] = << >> /\ birds_snapshot'[s] # << >>) =>
              (step' = s /\ birds_snapshot'[s] = birds)

\* C12: the update is synchronous: every agent's new position and velocity
\* are computed from the step-start position and velocity of all agents,
\* never from a value another agent's update wrote in the same step, and
\* the snapshot is not modified while the step runs.
C12_SynchronousUpdate == [][WritesFromStepStart /\ SnapshotFrozen]_vars

\* a thread-pool step of more than one task is running, every slot of its
\* results buffer has been written, and an agent's neighbour has a new state
C12_Witness ==
    /\ variant = "pool" /\ main_pc = "wait" /\ num_tasks > 1
    /\ \A t \in DOMAIN task_pc[step] : task_pc[step][t] # "queued"
    /\ \E i, j \in Index :
          /\ i # j
          /\ Accumulate(birds_snapshot[step][i], birds_snapshot[step][j],
                        NoNeighbours).total = 1
          /\ results[step][j] # State(birds_snapshot[step][j])
          /\ results[step][i] # State(birds_snapshot[step][i])

\* slot i of the store holds the agent that was in slot i when the step
\* started, one update later: its velocity is that agent's velocity plus
\* its acceleration, limited, and its position that agent's position moved
\* by the new velocity
DerivedFromSlot(i) ==
    LET before == birds_snapshot[step][i]
    IN  /\ birds[i].velocity =
              NewVelocity(before.velocity, Acceleration(before, birds_snapshot[step]))
        /\ birds[i].position = NewPosition(before.position, birds[i].velocity)

\* C13: the population is fixed and index-stable in every variant: the
\* store always holds exactly NUM_BIRDS agents, and after a step slot i
\* holds the state derived from what slot i held before the step.
C13_FixedIndexStablePopulation ==
    /\ DOMAIN birds = Index
    /\ Cardinality(DOMAIN birds) = NUM_BIRDS
    /\ StepDone => \A i \in Index : DerivedFromSlot(i)

----------------------------------------------------------------------------
(* Claims about one update of a store, checked under SpecFn *)

\* the plain distance between two positions on the x axis
XDistance(p, q) == Abs(p[1] - q[1])

\* the entries of a store within the perception radius of agent i, by distance
NeighboursOf(store, i) ==
    { j \in DOMAIN store :
        /\ 0 < XDistance(store[i].position, store[j].position)
        /\ XDistance(store[i].position, store[j].position) < PERCEPTION_RADIUS }

\* out is v clamped to magnitude max
IsClamped(v, max, out) ==
    /\ NormSq(v) <= max * max => out = v
    /\ NormSq(v) > max * max =>
          /\ NormSq(out) = max * max
          /\ \A k \in Axes : Sqrt(NormSq(v)) * out[k] = max * v[k]

\* out is the position p wrapped into the domain
IsWrapped(p, out) ==
    \A k \in Axes :
        /\ InDomain(out[k])
        /\ (out[k] - p[k]) % Width = 0
        /\ InDomain(p[k]) => out[k] = p[k]

\* C14: an agent without a neighbour in a step (every other agent at
\* distance 0 or at distance >= PERCEPTION_RADIUS) gets acceleration
\* exactly zero; its new velocity is its old velocity clamped to MAX_SPEED
\* and its new position is wraparound(old position + new velocity), by
\* calculate_bird_update and by the rayon closure alike.
C14_NoNeighbourInertial ==
    (probe.kind = "flock" /\ probe.pc = "applied") =>
        \A i \in Index : NeighboursOf(probe.in, i) = {} =>
            LET old == probe.in[i]
                out == probe.out[i]
            IN  /\ out.acceleration = Zeros
                /\ out.rayon.acceleration = Zeros
                /\ IsClamped(old.velocity, MAX_SPEED, out.pool[2])
                /\ IsWrapped(VAdd(old.position, out.pool[2]), out.pool[1])
                /\ out.rayon.velocity = out.pool[2]
                /\ out.rayon.position = out.pool[1]

\* no agent of the store had a neighbour; one of them, faster than
\* MAX_SPEED and with another agent at its own position, was slowed to
\* MAX_SPEED and moved by that much
C14_Witness ==
    /\ probe.kind = "flock" /\ probe.pc = "applied"
    /\ \A i \in Index : NeighboursOf(probe.in, i) = {}
    /\ \E i, j \in Index :
          /\ i # j
          /\ probe.in[i].position = probe.in[j].position
          /\ probe.in[i].velocity = OnX(-4000)
          /\ probe.out[i].pool = << OnX(3500), OnX(-MAX_SPEED) >>
          /\ probe.in[i].acceleration = Zeros

\* C15: in a population of one agent the velocity after every step, from
\* the first step on, is the initial velocity clamped to MAX_SPEED, and
\* each step's position is wraparound(previous position + that velocity).
C15_SingleAgentInertial ==
    (probe.kind = "single" /\ probe.n >= 1) =>
        /\ IsClamped(probe.in.velocity, MAX_SPEED, probe.pool[0].velocity)
        /\ IsWrapped(VAdd(probe.prev_pool[0].position, probe.pool[0].velocity),
                     probe.pool[0].position)
        /\ probe.n >= 2 => probe.pool[0].velocity = probe.prev_pool[0].velocity
        /\ IsClamped(probe.in.velocity, MAX_SPEED, probe.rayon[0].velocity)
        /\ IsWrapped(VAdd(probe.prev_rayon[0].position, probe.rayon[0].velocity),
                     probe.rayon[0].position)
        /\ probe.n >= 2 => probe.rayon[0].velocity = probe.prev_rayon[0].velocity

\* the agent drawn with speed 1.25 off the axes has flown MaxSingleSteps
\* steps at MAX_SPEED in its initial direction
C15_Witness ==
    /\ probe.kind = "single" /\ probe.n = MaxSingleSteps
    /\ probe.in.velocity = << 2400, 3200, 0 >>
    /\ probe.pool[0].velocity = << 300, 400, 0 >>
    /\ probe.pool[0].position = VAdd(probe.in.position,
                                     << 300 * MaxSingleSteps, 400 * MaxSingleSteps, 0 >>)
    /\ probe.rayon[0].position = probe.pool[0].position

\* f is a non-zero force along the direction from position q to position p
PointsFromTo(f, q, p) ==
    /\ f # Zeros
    /\ \E c \in 1 .. Unit : \A k \in Axes : f[k] * Abs(p[1] - q[1]) = c * (p[k] - q[k])

\* more than MAX_SPEED away from every face of the domain
WellInside(p) ==
    \A k \in Axes : SPACE_MIN + MAX_SPEED < p[k] /\ p[k] < SPACE_MAX - MAX_SPEED

\* C16: two agents at rest at distinct positions closer than
\* PERCEPTION_RADIUS, well inside the domain, with SEPARATION_WEIGHT equal
\* to COHESION_WEIGHT: for each of them the separation force points
\* directly away from the other, the cohesion force directly toward it, the
\* alignment force is zero, the acceleration is zero, and the step leaves
\* its velocity zero and its position unchanged.
C16_TwoAgentsAtRest ==
    (probe.kind = "flock" /\ probe.pc = "applied"
        /\ SEPARATION_WEIGHT = COHESION_WEIGHT) =>
        \A i, j \in Index :
            (/\ NeighboursOf(probe.in, i) = {j}
             /\ probe.in[i].velocity = Zeros /\ probe.in[j].velocity = Zeros
             /\ WellInside(probe.in[i].position) /\ WellInside(probe.in[j].position)) =>
                LET me    == probe.in[i].position
                    other == probe.in[j].position
                    out   == probe.out[i]
                IN  /\ PointsFromTo(out.forces.sep_force, other, me)
                    /\ PointsFromTo(out.forces.coh_force, me, other)
                    /\ out.forces.align_force = Zeros
                    /\ out.rayon_forces = out.forces
                    /\ out.acceleration = Zeros
                    /\ out.rayon.acceleration = Zeros
                    /\ out.pool = << me, Zeros >>
                    /\ State(out.rayon) = << me, Zeros >>

\* the agents at rest at the origin and at 1.0 were updated: the first was
\* pushed by MAX_FORCE along -x and pulled by MAX_FORCE along +x
C16_Witness ==
    /\ probe.kind = "flock" /\ probe.pc = "applied"
    /\ \E i, j \in Index :
          /\ probe.in[i] = Bird(OnX(0), Zeros, Zeros)
          /\ probe.in[j] = Bird(OnX(4000), Zeros, Zeros)
          /\ NeighboursOf(probe.in, i) = {j} /\ NeighboursOf(probe.in, j) = {i}
          /\ probe.out[i].forces.sep_force = OnX(-MAX_FORCE)
          /\ probe.out[i].forces.coh_force = OnX(MAX_FORCE)
          /\ probe.out[j].forces.sep_force = OnX(MAX_FORCE)
          /\ probe.out[j].pool = << OnX(4000), Zeros >>

\* the sum of the vectors f[j], j in S
RECURSIVE VSum(_, _)
VSum(f, S) ==
    IF S = {} THEN Zeros
    ELSE LET j == CHOOSE k \in S : TRUE
         IN  VAdd(f[j], VSum(f, S \ {j}))

\* the unit vector from q toward p, two distinct positions on the x axis
XUnit(p, q) == OnX(IF p[1] > q[1] THEN Unit ELSE -Unit)

\* C18: whether snapshot entry j counts as a neighbour of agent i is
\* decided by 0 < d < PERCEPTION_RADIUS on their distance d alone: the
\* neighbour count and the separation, alignment and cohesion sums are
\* those of exactly the entries that pass this test, so the agent's own
\* entry, an entry at distance exactly PERCEPTION_RADIUS and another agent
\* at the agent's own position contribute nothing.
C18_StrictNeighbourTest ==
    (probe.kind = "flock" /\ probe.pc = "applied") =>
        \A i \in Index :
            LET near == NeighboursOf(probe.in, i)
                acc  == probe.out[i].acc
            IN  /\ acc.total = Cardinality(near)
                /\ acc.alignment = VSum([j \in Index |-> probe.in[j].velocity], near)
                /\ acc.cohesion = VSum([j \in Index |-> probe.in[j].position], near)
                /\ acc.separation =
                      VSum([j \in Index |-> XUnit(probe.in[i].position,
                                                 probe.in[j].position)], near)

\* an agent at rest shares its position with a moving agent, another store
\* entry than its own: its scan ended with no neighbour and zero sums
C18_Witness ==
    /\ probe.kind = "flock" /\ probe.pc = "applied"
    /\ \E i, j \in Index :
          /\ i # j
          /\ probe.in[i].position = probe.in[j].position
          /\ probe.in[j].velocity # Zeros
          /\ probe.out[i].acc = NoNeighbours
          /\ probe.out[j].acc = NoNeighbours

\* C20: no division or normalisation of an update has a zero divisor or a
\* zero-length vector: the divisions by distance, by the neighbour count,
\* the normalize of each averaged accumulator, of limit_vec and of the
\* velocity clamp all have a divisor > 0 (the bounds MAX_FORCE and
\* MAX_SPEED that limit_vec and the clamp compare with are not negative);
\* and an averaged accumulator of zero magnitude gives the zero vector as
\* that force.
C20_NoZeroDivisor ==
    (probe.kind = "flock" /\ probe.pc = "applied") =>
        /\ MAX_FORCE >= 0 /\ MAX_SPEED >= 0
        /\ \A i \in Index :
              LET out == probe.out[i]
                  coh == VSub(out.acc.cohesion,
                              VSum([j \in Index |-> probe.in[i].position],
                                   NeighboursOf(probe.in, i)))
              IN  /\ \A d \in out.divisions : d[2] > 0
                  /\ out.acc.total > 0 =>
                        /\ Norm(out.acc.separation) = 0 =>
                              (out.forces.sep_force = Zeros
                                  /\ out.rayon_forces.sep_force = Zeros)
                        /\ Norm(out.acc.alignment) = 0 =>
                              (out.forces.align_force = Zeros
                                  /\ out.rayon_forces.align_force = Zeros)
                        /\ Norm(coh) = 0 =>
                              (out.forces.coh_force = Zeros
                                  /\ out.rayon_forces.coh_force = Zeros)

\* an agent at rest with a neighbour at rest was updated: it divided by the
\* distance and by the count, normalised the separation and cohesion
\* averages and limited both forces, and took the zero alignment average
\* as a zero force without normalising it
C20_Witness ==
    /\ probe.kind = "flock" /\ probe.pc = "applied"
    /\ \E i \in Index :
          /\ probe.out[i].acc.total = 1
          /\ probe.out[i].acc.alignment = Zeros
          /\ probe.out[i].forces.align_force = Zeros
          /\ probe.out[i].divisions =
                { << "distance", 4000 >>, << "total", 1 >>,
                  << "normalize", Unit >>, << "limit_vec", MAX_SPEED >> }

\* the largest magnitude the weighted sum of three limited forces can have
MaxAcceleration ==
    FMul(SEPARATION_WEIGHT + ALIGNMENT_WEIGHT + COHESION_WEIGHT, MAX_FORCE)

\* C21: each of the three steering forces that enter the weighted sum has
\* magnitude <= MAX_FORCE, whatever the agent's velocity and its
\* neighbours are, so the acceleration has magnitude <=
\* (SEPARATION_WEIGHT + ALIGNMENT_WEIGHT + COHESION_WEIGHT) * MAX_FORCE, in
\* calculate_bird_update and in the rayon closure alike.
C21_ForcesLimited ==
    (probe.kind = "flock" /\ probe.pc = "applied") =>
        \A i \in Index :
            LET out == probe.out[i]
            IN  /\ \A f \in { out.forces.sep_force, out.forces.align_force,
                               out.forces.coh_force,
                               out.rayon_forces.sep_force,
                               out.rayon_forces.align_force,
                               out.rayon_forces.coh_force } :
                      Norm(f) <= MAX_FORCE
                /\ Norm(out.acceleration) <= MaxAcceleration
                /\ Norm(out.rayon.acceleration) <= MaxAcceleration

\* an agent drawn with speed 1.0 toward a neighbour at rest was updated:
\* its separation and cohesion steering, of magnitude 1.125 and 0.875
\* before the limit, are both MAX_FORCE along +x and its acceleration is
\* (SEPARATION_WEIGHT + COHESION_WEIGHT) * MAX_FORCE
C21_Witness ==
    /\ probe.kind = "flock" /\ probe.pc = "applied"
    /\ \E i, j \in Index :
          /\ probe.in[i] = Bird(OnX(4000), OnX(-4000), Zeros)
          /\ probe.in[j] = Bird(OnX(0), Zeros, Zeros)
          /\ NeighboursOf(probe.in, i) = {j}
          /\ probe.out[i].forces.sep_force = OnX(MAX_FORCE)
          /\ probe.out[i].forces.coh_force = OnX(MAX_FORCE)
          /\ probe.out[i].rayon_forces = probe.out[i].forces
          /\ probe.out[i].acceleration =
                OnX(FMul(SEPARATION_WEIGHT + COHESION_WEIGHT, MAX_FORCE))
          /\ probe.out[i].rayon.acceleration = probe.out[i].acceleration

\* the distance between two positions on the x axis in the periodic
\* domain, where the faces SPACE_MIN and SPACE_MAX are one plane
TorusXDistance(p, q) ==
    IF XDistance(p, q) <= Width - XDistance(p, q)
    THEN XDistance(p, q)
    ELSE Width - XDistance(p, q)

\* the entries of a store within the perception radius of agent i, by
\* distance in the periodic domain
TorusNeighboursOf(store, i) ==
    { j \in DOMAIN store :
        /\ 0 < TorusXDistance(store[i].position, store[j].position)
        /\ TorusXDistance(store[i].position, store[j].position) < PERCEPTION_RADIUS }

\* C22: the neighbour test uses the periodic topology of the domain: the
\* entries an agent's scan counts and sums as neighbours are those at a
\* distance 0 < d < PERCEPTION_RADIUS measured in the torus, so two agents
\* closer than PERCEPTION_RADIUS across a periodic face (one just inside
\* SPACE_MAX, the other just inside SPACE_MIN) are neighbours of each
\* other exactly as two agents at that separation in the interior are.
C22_TorusNeighbourTest ==
    (probe.kind = "flock" /\ probe.pc = "applied") =>
        \A i \in Index :
            LET near == TorusNeighboursOf(probe.in, i)
                acc  == probe.out[i].acc
            IN  /\ acc.total = Cardinality(near)
                /\ acc.alignment = VSum([j \in Index |-> probe.in[j].velocity], near)

----------------------------------------------------------------------------
(* Claims about the store in every state of a run, checked under Spec *)

SpeedLimited(bird) == NormSq(bird.velocity) <= MAX_SPEED * MAX_SPEED

\* C17 as stated: every agent of the store has magnitude(velocity) <=
\* MAX_SPEED in every reachable state, from the construction of the store
\* by Bird::new on, the state the first snapshot is taken from included.
C17_SpeedLimitedFromConstruction == \A i \in Index : SpeedLimited(birds[i])

\* the first step has written agent i: the rayon closure has run on it, or
\* the thread-pool merge has run
WrittenOnce(i) ==
    \/ step >= 2
    \/ step = 1 /\ main_pc \in {"render", "idle"}
    \/ step = 1 /\ variant = "rayon" /\ i \in par_done

\* C17, amended: every agent has magnitude(velocity) <= MAX_SPEED in every
\* reachable state from the moment the first step has written it (between
\* steps and in the middle of later steps too); as constructed by Bird::new
\* an agent may be faster.
C17_SpeedLimitedOnceWritten ==
    \A i \in Index : WrittenOnce(i) => SpeedLimited(birds[i])

\* in the middle of the first rayon step: one agent drawn faster than
\* MAX_SPEED has been slowed to it, another is still as fast as drawn
C17_Witness ==
    /\ variant = "rayon" /\ step = 1 /\ main_pc = "par"
    /\ \E i \in par_done, j \in Index \ par_done :
          /\ ~SpeedLimited(birds_snapshot[step][i])
          /\ NormSq(birds[i].velocity) = MAX_SPEED * MAX_SPEED
          /\ ~SpeedLimited(birds[j])

\* C19: after each step the acceleration stored for agent i is
\* SEPARATION_WEIGHT * separation + ALIGNMENT_WEIGHT * alignment +
\* COHESION_WEIGHT * cohesion as computed for agent i in that step from the
\* snapshot, whatever acceleration was stored before, in the rayon variants
\* and in the thread-pool variant alike.  (Stated for the steps that did
\* not time out.)
C19_AccelerationStored ==
    (StepDone /\ ~warned) =>
        \A i \in Index :
            birds[i].acceleration =
                Combine(Forces(birds_snapshot[step][i],
                               Scan(birds_snapshot[step][i], birds_snapshot[step],
                                    0, NoNeighbours)))


\* the job of step s that owns slot i of the results buffer has stored its
\* updates
SlotWritten(s, i) ==
    \E t \in JobsOf(s) :
        /\ i \in TaskRange(t, NUM_BIRDS, num_threads)
        /\ task_pc[s][t] \in {"has_results", "has_count", "done"}

\* the main thread has left the wait loop of the running step on a poll
\* that found every job counted
LeftOnCount == variant = "pool" /\ main_pc = "leave" /\ ~warned

\* job t of step s adds one to the step's counter in this step
Counts(s, t) ==
    /\ t \in JobsOf(s) /\ task_pc'[s] # << >>
    /\ task_pc[s][t] \in {"queued", "has_results"}
    /\ task_pc'[s][t] \in {"has_count", "done"}
    /\ completed_count'[s] = completed_count[s] + 1

\* the main thread leaves the wait loop in this step, on the counter
LeavesOnCount == main_pc = "wait" /\ LeftOnCount'

\* every slot of job t's chunk in buffer holds the update of its index
\* computed from the snapshot of step s
ChunkStored(s, t, buffer) ==
    \A i \in TaskRange(t, NUM_BIRDS, num_threads) :
        buffer[i] = calculate_bird_update(i, birds_snapshot[s][i], birds_snapshot[s])

\* C23: a job adds one to completed_count only after it has stored every
\* update of its chunk, so whenever the main thread leaves the wait loop
\* on completed_count = num_tasks, every one of the NUM_BIRDS slots of the
\* results buffer has been written by its job and holds the update
\* computed for that index from the step's snapshot; no slot is still the
\* zero placeholder of line 226.
C23_CountedAfterWritten ==
    [][/\ \A s \in Steps, t \in 0 .. NUM_BIRDS :
              Counts(s, t) => ChunkStored(s, t, results'[s])
       /\ LeavesOnCount =>
              /\ completed_count[step] = num_tasks
              /\ \A i \in Index : SlotWritten(step, i)
              /\ \A t \in Tasks : ChunkStored(step, t, results[step])]_vars

\* the second step of a pool of two jobs: both are counted, the main
\* thread has left the wait loop and not merged yet, and no slot holds
\* the value of the placeholder
C23_Witness ==
    /\ LeftOnCount /\ step = 2 /\ num_tasks = 2
    /\ completed_count[step] = 2
    /\ \A i \in Index :
          /\ results[step][i] # <<Zeros, Zeros>>
          /\ State(birds[i]) # results[step][i]

\* the main thread has left the wait loop of step s
LeftWait(s) == s < step \/ (s = step /\ main_pc # "wait")

\* what belongs to step r: its snapshot, results buffer, counter, mutexes
\* and jobs
OfStep(r) ==
    << birds_snapshot[r], results[r], completed_count[r], results_lock[r],
       count_lock[r], task_pc[r] >>

\* C25: a job of step n that moves on after the main thread has left step
\* n's wait loop writes only into step n's own results buffer and counter:
\* its step changes neither the live store nor the snapshot, the results
\* buffer, the counter or the mutexes of any other step.
C25_LateJobsIsolated ==
    [][\A s \in Steps, t \in 0 .. NUM_BIRDS :
          (LeftWait(s) /\ WorkerTurn(s, t)) =>
              /\ birds' = birds
              /\ \A r \in Steps \ {s} : OfStep(r)' = OfStep(r)]_vars

\* the second step is waiting for its jobs; the first step timed out on
\* the job of agent 1, whose slot was merged as the placeholder, and that
\* job has since run to its end: the first step's buffers are freed, the
\* second step's are as its own jobs left them
C25_Witness ==
    /\ variant = "pool" /\ num_tasks = 2
    /\ step = 2 /\ main_pc = "wait"
    /\ <<1, 1>> \in stalled /\ task_pc[1] = << >> /\ results[1] = << >>
    /\ birds_snapshot[2] = [i \in Index |->
                               IF i = 0 THEN Bird(OnX(3500), OnX(-MAX_SPEED), Zeros)
                               ELSE Bird(Zeros, Zeros, Zeros)]
    /\ birds = birds_snapshot[2]
    /\ \A t \in Tasks : task_pc[2][t] = "queued"
    /\ \A i \in Index : results[2][i] = <<Zeros, Zeros>>

\* C26: the thread-pool variant and the rayon variants compute the same
\* step: the position and velocity a completed thread-pool step leaves in
\* agent i are those the rayon closure computes for element i from the
\* step's snapshot, and the position and velocity a rayon step leaves are
\* those calculate_bird_update returns and the merge stores.
C26_VariantsAgree ==
    (StepDone /\ ~warned) =>
        \A i \in Index :
            LET snapshot == birds_snapshot[step]
            IN  /\ variant = "pool" =>
                      State(birds[i]) = State(RayonUpdate(i, snapshot[i], snapshot))
                /\ variant = "rayon" =>
                      State(birds[i]) =
                          State(Merged(snapshot[i],
                                       calculate_bird_update(i, snapshot[i], snapshot)))

\* a completed thread-pool step from the draw (at rest at the origin; 1.0
\* away at speed 1.0): the first agent was accelerated to 0.06 along -x
\* as the rayon closure accelerates it, and only its stored acceleration
\* is not the closure's
C26_Witness ==
    /\ variant = "pool" /\ StepDone /\ ~warned /\ step = 1
    /\ birds_snapshot[step][0] = Bird(OnX(0), Zeros, Zeros)
    /\ birds_snapshot[step][1] = Bird(OnX(4000), OnX(-4000), Zeros)
    /\ State(birds[0]) = << OnX(-240), OnX(-240) >>
    /\ RayonUpdate(0, birds_snapshot[step][0], birds_snapshot[step])
          = Bird(OnX(-240), OnX(-240), OnX(-240))
    /\ birds[0].acceleration = Zeros

----------------------------------------------------------------------------
(* Claims about the scheduling of the thread-pool variant, checked under
   SpecFair *)

\* a job holds completed_count only inside its hold of results, and the
\* main thread never holds both mutexes of a step
LockOrder ==
    \A s \in Steps :
        /\ \A t \in 0 .. NUM_BIRDS :
              count_lock[s] = Task(t) => results_lock[s] = Task(t)
        /\ ~(count_lock[s] = Main /\ results_lock[s] = Main)

\* the main thread polls for the jobs of the running step
Waiting == main_pc = "wait"

\* the step's results have been merged without the timeout warning
MergedOnCount == main_pc = "render" /\ ~warned /\ AllDone(step)

\* C24: in the thread-pool variant, when every job is scheduled fairly and
\* none stalls, every step completes: completed_count reaches num_tasks,
\* the wait loop exits on it without the timeout warning and the results
\* are merged; the main thread and the jobs cannot deadlock over the
\* results and completed_count mutexes, as a job takes results before
\* completed_count and the main thread never holds both.
C24_StepsComplete ==
    /\ []LockOrder
    /\ ([](stalled = {})) =>
          /\ []~warned
          /\ Waiting ~> (LeftOnCount /\ completed_count[step] = num_tasks)
          /\ LeftOnCount ~> MergedOnCount

\* a pool of two jobs without a stall: the last step is merged, from a
\* counter of 2, without the warning, and both mutexes of the step's jobs
\* have been given back
C24_Witness ==
    /\ variant = "pool" /\ stalled = {} /\ num_tasks = 2
    /\ step = MaxSteps /\ MergedOnCount
    /\ completed_count[step] = 2
    /\ count_lock[step] = Free /\ results_lock[step] = Main

=============================================================================
